---- MODULE Spec2Model ----
(***************************************************************************)
(* Model of thermal.js: the altitude-indexed weather profile (weatherStack)*)
(* with its point query / update, the gauge rebuild, and the thermal       *)
(* impulse integration (getThermalData).                                   *)
(*                                                                         *)
(* Numbers.  JavaScript numbers are IEEE doubles; here they are decimal    *)
(* fixed-point integers, every operation rounding to its grid as a double  *)
(* operation rounds to its own:                                            *)
(*   altitudes                      metres                                 *)
(*   temp, wind, humidity, solar    1/1000 of the source unit              *)
(*   saturated density              1/1000 g/m3                            *)
(*   relative humidity              1/10000 (with Infinity / NaN kinds)    *)
(*   gradient                       1/100000 K per 100 m                   *)
(*   impulse                        1/1000000                              *)
(*   cloudBase                      1/100 m  (with Infinity / NaN kinds)   *)
(* A thrown TypeError (a property read on undefined) is the result         *)
(* [ok |-> FALSE]; the handler that hit it is abandoned at that point.     *)
(***************************************************************************)
EXTENDS Integers, Sequences, FiniteSets, TLC

VARIABLES
    weatherStack,                   \* the profile: a sequence of samples
    maxShownAltitude,               \* [m]
    altimeterResolution,            \* [m]
    defaultGroundAbsoluteHumidity,  \* [1/1000 g/m3]
    solarStrength,                  \* [1/1000]
    thermal,                        \* the getThermalData call in progress
    nUpdates,                       \* setDataAt calls made so far
    nRebuilds,                      \* reCreateGauges calls made so far
    last                            \* the last call made and what it returned

vars == <<weatherStack, maxShownAltitude, altimeterResolution,
          defaultGroundAbsoluteHumidity, solarStrength, thermal, nUpdates, nRebuilds,
          last>>

----------------------------------------------------------------------------
\* Program constants (thermal.js lines 5-17, 30), in the units above.

defaultGroundTemperature == 25000
\* 0.7 K per 100 m, in 1/1000 K per 100 m
defaultTemperatureGradient == 700
calculationsMaxHeight == 10000
calculationResolution == 100
\* 1.8, in tenths
thermalInitialImpulse == 18
\* -0.39 K/100m, in 1/100000
thermalStagnantGradient == -39000
\* 0.4, in tenths
thermalImpulseTangentRatio == 4
\* 0.38 per 100 m, in hundredths
condensationCompensation == 38
\* 2.5, in tenths
inversionCompensation == 25

----------------------------------------------------------------------------
\* Bounds of the model.

\* The number of setDataAt calls in one behaviour.
MaxUpdates == 2

\* The number of reCreateGauges calls in one behaviour, after the one of the
\* main function.
MaxRebuilds == 1

Fields == {"temp", "wind", "humidity"}

\* Altitudes handed to setDataAt: gauge altitudes of the default grid (0,
\* 4000) and altitudes between them (1000, 5000), all within
\* [0, calculationsMaxHeight].
UpdateAltitudes == {0, 1000, 4000, 5000}

\* Altitudes handed to getDataAt: inside, on and outside the profile's range.
QueryAltitudes == {-100, 0, 500, 5000, 12000}

\* Values a gauge is set to, per field (1/1000 units); the wind gauges are
\* left alone.
UpdateValues(fieldName) ==
    CASE fieldName = "temp"     -> {-14000}
      [] fieldName = "wind"     -> {}
      [] fieldName = "humidity" -> {8000}

MaxShownAltitudes == {6000, 12000}
\* Maximum altitudes the input may hold when the gauges are rebuilt: negative,
\* below one gauge step, the default, the ceiling and above the ceiling.
AnyMaxShownAltitudes == {-2000, 1000, 6000, 10000, 12000}
AltimeterResolutions == {2000, 3000}

\* Step heights [m] and temperatures [1/1000 C] the gradient of one step is
\* computed for.
StepResolutions == {50, 100, 200, 500}
StepTemperatures == {-20000, -14000, 0, 11000, 18000, 25000}
GroundHumidities == {0, 10000}
SolarStrengths == {0, 800}

----------------------------------------------------------------------------
\* Arithmetic helpers.

\* n / d rounded to the nearest integer, halves upward (d > 0).
RoundDiv(n, d) == (n + (d \div 2)) \div d

\* x / y for any sign of y # 0, rounded to the nearest integer.
SignedRoundDiv(x, y) == IF y > 0 THEN RoundDiv(x, y) ELSE RoundDiv(-x, -y)

RECURSIVE Pow10(_)
Pow10(k) == IF k = 0 THEN 1 ELSE 10 * Pow10(k - 1)

\* floor(a * 10^k / c) for c > 0, one decimal digit at a time.
RECURSIVE DivDigits(_, _, _)
DivDigits(a, c, k) ==
    IF k = 0 THEN a \div c
    ELSE (a \div c) * Pow10(k) + DivDigits((a % c) * 10, c, k - 1)

\* The altitudes of the samples of a profile.
Alts(stack) == {stack[i].alt : i \in 1..Len(stack)}

----------------------------------------------------------------------------
\* Meteorological calculations.

\* roundToDecim(num, 2): Math.round((num + 10^-4) * 100) / 100.  On the
\* 1/1000 grid the 10^-4 bias never reaches the next half, so this is
\* round-half-up to a multiple of 10.
roundToDecim(num) == ((num + 5) \div 10) * 10

\* 5.018 + 0.32321 T + 8.1847e-3 T^2 + 3.1243e-4 T^3, evaluated innermost
\* coefficient first so that every product stays in range; the result is in
\* 1/1000 g/m3.  temperature in 1/1000 C, |temperature| <= 46 C.
getSaturatedDensityFor(temperature) ==
    LET c3 == RoundDiv(31243 * temperature, 10000)        \* 1e-7
        c2 == RoundDiv(81847 + c3, 10)                     \* 1e-6
        c1 == RoundDiv(32321 + RoundDiv(c2 * temperature, 10000), 10)  \* 1e-4
    IN  5018 + RoundDiv(c1 * temperature, 10000)

\* The quotient taken the wrong way round: saturated density over absolute.
getRelativeHumidityInverted(absolute, temperature) ==
    LET sat == getSaturatedDensityFor(temperature)
    IN  IF absolute = 0
        THEN [kind |-> IF sat > 0 THEN "pinf"
                       ELSE IF sat < 0 THEN "ninf" ELSE "nan", v |-> 0]
        ELSE [kind |-> "fin", v |-> SignedRoundDiv(sat * 10000, absolute)]

\* absolute / getSaturatedDensityFor(temperature); altitude and pressure are
\* accepted by the source and unused.  A division by zero gives Infinity,
\* -Infinity or NaN as in IEEE arithmetic.
getRelativeHumidity(absolute, temperature) ==
    LET sat == getSaturatedDensityFor(temperature)
    IN  IF sat = 0
        THEN [kind |-> IF absolute > 0 THEN "pinf"
                       ELSE IF absolute < 0 THEN "ninf" ELSE "nan", v |-> 0]
        ELSE [kind |-> "fin", v |-> SignedRoundDiv(absolute * 10000, sat)]

\* The Magnus inversion 243.12 H / (17.62 - H) with
\* H = (log10(100 rh) - 2) / 0.4343 + 17.62 T / (243.12 + T).  The logarithm
\* has no integer model, so the result is kept as the term of its two
\* arguments: two dew points are equal when their arguments are, and for one
\* temperature the formula is strictly increasing in relativeHumidity.
getDewPoint(temperature, relativeHumidity) ==
    [T |-> temperature, RH |-> relativeHumidity]

----------------------------------------------------------------------------
\* WeatherStack utilities.

MeteoData(altitude, temperature, wind, humidity) ==
    [alt |-> altitude, temp |-> temperature, wind |-> wind,
     humidity |-> humidity,
     dewPoint |-> getDewPoint(temperature,
                              getRelativeHumidity(humidity, temperature))]

\* The for loop shared by getDataAt and setDataAt, from index i on (1-based;
\* 0 stands for undefined): hit is the index of the sample at exactly
\* altitude, below the last index seen with a lower altitude, above the index
\* of the first higher sample, where the loop breaks.
RECURSIVE scan(_, _, _, _)
scan(stack, altitude, i, below) ==
    IF i > Len(stack) THEN [hit |-> 0, below |-> below, above |-> 0]
    ELSE IF stack[i].alt = altitude
         THEN [hit |-> i, below |-> below, above |-> 0]
    ELSE IF stack[i].alt < altitude THEN scan(stack, altitude, i + 1, i)
    ELSE [hit |-> 0, below |-> below, above |-> i]

\* The result of a query that threw.
TypeError == [ok |-> FALSE, v |-> 0]

\* getDataAt with a fallback added: outside the samples it answers with the
\* nearest sample's value instead of reading a property of undefined.
getDataAtClamped(stack, altitude, fieldName) ==
    LET s == scan(stack, altitude, 1, 0)
    IN  IF s.hit # 0 THEN [ok |-> TRUE, v |-> stack[s.hit][fieldName]]
        ELSE IF s.below = 0 /\ s.above = 0 THEN TypeError
        ELSE IF s.above = 0 THEN [ok |-> TRUE, v |-> stack[s.below][fieldName]]
        ELSE IF s.below = 0 THEN [ok |-> TRUE, v |-> stack[s.above][fieldName]]
        ELSE LET below == stack[s.below]
                 above == stack[s.above]
             IN  [ok |-> TRUE,
                  v  |-> below[fieldName]
                         + RoundDiv((altitude - below.alt)
                                      * (above[fieldName] - below[fieldName]),
                                    above.alt - below.alt)]

getDataAt(stack, altitude, fieldName) ==
    LET s == scan(stack, altitude, 1, 0)
    IN  IF s.hit # 0 THEN [ok |-> TRUE, v |-> stack[s.hit][fieldName]]
        ELSE IF s.below = 0 \/ s.above = 0 THEN TypeError
        ELSE LET below == stack[s.below]
                 above == stack[s.above]
             IN  [ok |-> TRUE,
                  v  |-> below[fieldName]
                         + RoundDiv((altitude - below.alt)
                                      * (above[fieldName] - below[fieldName]),
                                    above.alt - below.alt)]

getTemperatureAt(stack, altitude) == getDataAt(stack, altitude, "temp")
getWindAt(stack, altitude) == getDataAt(stack, altitude, "wind")
getAbsoluteHumidityAt(stack, altitude) == getDataAt(stack, altitude, "humidity")

\* Called only where getTemperatureAt(altitude) has returned.
getDewPointAt(stack, altitude) ==
    LET temperature == getTemperatureAt(stack, altitude).v
    IN  getDewPoint(temperature,
                    getRelativeHumidity(getAbsoluteHumidityAt(stack, altitude).v,
                                        temperature))

\* new AutoMeteoData(altitude): ok is FALSE when a getter threw.
AutoMeteoData(stack, altitude) ==
    IF ~getTemperatureAt(stack, altitude).ok THEN [ok |-> FALSE]
    ELSE [ok |-> TRUE,
          alt |-> altitude,
          temp |-> getTemperatureAt(stack, altitude).v,
          wind |-> getWindAt(stack, altitude).v,
          humidity |-> getAbsoluteHumidityAt(stack, altitude).v,
          dewPoint |-> getDewPointAt(stack, altitude)]

\* The sample record of a constructed AutoMeteoData.
Sample(d) == [alt |-> d.alt, temp |-> d.temp, wind |-> d.wind,
              humidity |-> d.humidity, dewPoint |-> d.dewPoint]

\* splice with a delete count of 1: item takes the place of the element at
\* start.
spliceReplacing(stack, start, item) ==
    LET at == IF start < 0 THEN 0 ELSE start
    IN  SubSeq(stack, 1, at) \o <<item>> \o SubSeq(stack, at + 2, Len(stack))

\* stack.splice(start, 0, item) with start a 0-based index or undefined (-1):
\* item is put in front of the element at that index.
splice(stack, start, item) ==
    LET at == IF start < 0 THEN 0 ELSE start
    IN  SubSeq(stack, 1, at) \o <<item>> \o SubSeq(stack, at + 1, Len(stack))

\* setDataAt: the profile it leaves, and whether it returned (ok) or threw.
setDataAt(stack, altitude, fieldName, value) ==
    LET s == scan(stack, altitude, 1, 0)
    IN  IF s.hit # 0
        THEN [ok |-> TRUE,
              stack |-> [stack EXCEPT ![s.hit][fieldName] = value]]
        ELSE LET newField == AutoMeteoData(stack, altitude)
             IN  IF ~newField.ok THEN [ok |-> FALSE, stack |-> stack]
                 ELSE [ok |-> TRUE,
                       stack |-> splice(stack, s.below - 1,
                                        [Sample(newField) EXCEPT ![fieldName] = value])]

----------------------------------------------------------------------------
\* Thermal impulse simulation.

\* Extended reals on the 1/10000 grid.
Fin(v) == [kind |-> "fin", v |-> v]
NaN == [kind |-> "nan", v |-> 0]
PInf == [kind |-> "pinf", v |-> 0]
NInf == [kind |-> "ninf", v |-> 0]

\* a - b
ExtSub(a, b) ==
    IF a.kind = "nan" \/ b.kind = "nan" THEN NaN
    ELSE IF a.kind = "fin" /\ b.kind = "fin" THEN Fin(a.v - b.v)
    ELSE IF a.kind = "fin" THEN (IF b.kind = "pinf" THEN NInf ELSE PInf)
    ELSE IF b.kind = "fin" THEN a
    ELSE IF a.kind = b.kind THEN NaN ELSE a

\* a / b, the quotient cut to the grid; b = 0 is the +0 a subtraction of equal
\* numbers leaves.
ExtDiv(a, b) ==
    IF a.kind = "nan" \/ b.kind = "nan" THEN NaN
    ELSE IF a.kind = "fin" /\ b.kind = "fin"
         THEN IF b.v = 0
              THEN (IF a.v > 0 THEN PInf ELSE IF a.v < 0 THEN NInf ELSE NaN)
              ELSE IF b.v > 0 THEN Fin(DivDigits(a.v, b.v, 4))
              ELSE Fin(DivDigits(-a.v, -b.v, 4))
    ELSE IF a.kind = "fin" THEN Fin(0)
    ELSE IF b.kind = "fin"
         THEN IF (a.kind = "pinf") = (b.v >= 0) THEN PInf ELSE NInf
    ELSE NaN

\* relHumi >= 1.0
AtLeastOne(relHumi) ==
    relHumi.kind = "pinf" \/ (relHumi.kind = "fin" /\ relHumi.v >= 10000)

\* prev.alt + ((1.0 - prev.relHumi) / (curr.relHumi - prev.relHumi))
\*              * (curr.alt - prev.alt),       in 1/100 m
cloudBaseBetween(prev, curr) ==
    LET ratio == ExtDiv(ExtSub(Fin(10000), prev.relHumi),
                        ExtSub(curr.relHumi, prev.relHumi))
    IN  IF ratio.kind = "fin"
        THEN Fin(prev.alt * 100 + (ratio.v * (curr.alt - prev.alt)) \div 100)
        ELSE ratio

\* altitude < cloudBase
BelowCloudBase(altitude, cloudBase) ==
    cloudBase.kind = "pinf" \/ (cloudBase.kind = "fin" /\ altitude * 100 < cloudBase.v)

\* data.cloudBase === calculationsMaxHeight
NoCloudBaseYet(cloudBase) ==
    cloudBase.kind = "fin" /\ cloudBase.v = calculationsMaxHeight * 100

\* getThermalData runs as a call in progress: pc is "idle" (no call), "loop"
\* (at the head of the for statement), "done" (returned data) or "failed"
\* (a profile query threw); steps counts the loop bodies begun.
IdleThermal ==
    [pc |-> "idle", altitude |-> 0,
     prev |-> [alt |-> 0, temp |-> 0, relHumi |-> NaN], impulse |-> 0,
     data |-> [thermalTop |-> 0, cloudBase |-> NaN, strength |-> <<>>],
     steps |-> 0]

\* The initial impulse with the solar strength left out of it.
initialImpulseWithoutSolar(solar) == thermalInitialImpulse * 100000

\* (solarStrength * 1.2 - 0.1) * thermalInitialImpulse, in 1/1000000.
initialImpulse(solar) == (solar * 12 - 1000) * thermalInitialImpulse * 10

\* getThermalData up to the for statement (lines 266-271).
thermalStart(stack, groundHumidity, solar) ==
    LET temp0 == getTemperatureAt(stack, 0)
    IN  [pc |-> IF temp0.ok THEN "loop" ELSE "failed",
         altitude |-> calculationResolution,
         prev |-> [alt |-> 0, temp |-> temp0.v,
                   relHumi |-> getRelativeHumidity(groundHumidity, temp0.v)],
         impulse |-> initialImpulse(solar),
         data |-> [thermalTop |-> calculationsMaxHeight,
                   cloudBase |-> Fin(calculationsMaxHeight * 100),
                   strength |-> <<>>],
         steps |-> 0]

\* (curr.temp - prev.temp) * (calculationResolution / 100.0), in 1/100000.
gradientOver(prevTemp, currTemp, resolution) == (currTemp - prevTemp) * resolution

\* The loop condition with the ceiling included.
loopConditionInclusive(altitude) == altitude <= calculationsMaxHeight

\* The loop condition of the for statement.
loopCondition(altitude) == altitude < calculationsMaxHeight

\* The stop test left out: the loop never breaks.
thermalStoppedNever(impulse) == FALSE

\* impulse < 0: the thermal stopped.
thermalStopped(impulse) == impulse < 0

\* One pass of the for statement (lines 271-299) from the call state t: the
\* condition, the body, and altitude += calculationResolution.
thermalStep(stack, groundHumidity, t) ==
    IF ~loopCondition(t.altitude) THEN [t EXCEPT !.pc = "done"]
    ELSE
    LET temp == getTemperatureAt(stack, t.altitude)
        curr == [alt |-> t.altitude, temp |-> temp.v,
                 relHumi |-> getRelativeHumidity(groundHumidity, temp.v)]
        gradient == gradientOver(t.prev.temp, curr.temp, calculationResolution)
        cloudBase ==
            IF AtLeastOne(curr.relHumi) /\ NoCloudBaseYet(t.data.cloudBase)
            THEN cloudBaseBetween(t.prev, curr)
            ELSE t.data.cloudBase
        compensationOffset ==
            IF BelowCloudBase(t.altitude, cloudBase) THEN 0
            ELSE (curr.alt - t.prev.alt) * condensationCompensation * 100
        compensationMulti == IF gradient < 0 THEN 10 ELSE inversionCompensation
        impulse ==
            t.impulse
            + ((thermalStagnantGradient - gradient)
                 * thermalImpulseTangentRatio * compensationMulti) \div 10
            - compensationOffset
        strength == Append(t.data.strength,
                           [altitude |-> curr.alt, impulse |-> impulse])
    IN  IF ~temp.ok THEN [t EXCEPT !.pc = "failed", !.steps = @ + 1]
        ELSE IF thermalStopped(impulse)
        THEN [t EXCEPT !.pc = "done", !.impulse = impulse, !.steps = @ + 1,
                       !.data = [thermalTop |-> t.altitude,
                                 cloudBase |-> cloudBase,
                                 strength |-> strength]]
        ELSE [t EXCEPT !.altitude = @ + calculationResolution,
                       !.prev = curr, !.impulse = impulse, !.steps = @ + 1,
                       !.data = [thermalTop |-> t.data.thermalTop,
                                 cloudBase |-> cloudBase,
                                 strength |-> strength]]

----------------------------------------------------------------------------
\* Gauge rebuild.

\* The loop of reCreateGauges from gauge i on: one MeteoData per gauge
\* altitude, read from the current profile and rounded to two decimals.
RECURSIVE gaugeLoop(_, _, _, _, _)
gaugeLoop(stack, maxShown, resolution, i, newWeatherStack) ==
    IF ~(i * resolution <= maxShown) THEN [ok |-> TRUE, stack |-> newWeatherStack]
    ELSE
    LET altitude == i * resolution
    IN  IF ~getTemperatureAt(stack, altitude).ok
        THEN [ok |-> FALSE, stack |-> newWeatherStack]
        ELSE gaugeLoop(stack, maxShown, resolution, i + 1,
                 Append(newWeatherStack,
                        MeteoData(altitude,
                                  roundToDecim(getTemperatureAt(stack, altitude).v),
                                  roundToDecim(getWindAt(stack, altitude).v),
                                  roundToDecim(getAbsoluteHumidityAt(stack, altitude).v))))

\* reCreateGauges without the sample at calculationsMaxHeight added on top.
reCreateGaugesNoCeiling(stack, maxShown, resolution) ==
    LET built == gaugeLoop(stack, maxShown, resolution, 0, <<>>)
    IN  IF ~built.ok \/ Len(built.stack) = 0 THEN [ok |-> FALSE, stack |-> stack]
        ELSE [ok |-> TRUE, stack |-> built.stack]

\* reCreateGauges(): the profile it leaves, and whether it returned or threw
\* (weatherStack is assigned on the last line only).
reCreateGauges(stack, maxShown, resolution) ==
    LET built == gaugeLoop(stack, maxShown, resolution, 0, <<>>)
        new == built.stack
    IN  IF ~built.ok \/ Len(new) = 0 THEN [ok |-> FALSE, stack |-> stack]
        ELSE IF new[Len(new)].alt < calculationsMaxHeight
        THEN LET top == AutoMeteoData(stack, calculationsMaxHeight)
             IN  IF ~top.ok THEN [ok |-> FALSE, stack |-> stack]
                 ELSE [ok |-> TRUE, stack |-> Append(new, Sample(top))]
        ELSE [ok |-> TRUE, stack |-> new]

----------------------------------------------------------------------------
\* The state machine.

\* The default weather pushed by the main function.
DefaultWeather ==
    << MeteoData(0, defaultGroundTemperature, 0, 10000),
       MeteoData(9500,
                 defaultGroundTemperature - (9500 * defaultTemperatureGradient) \div 100,
                 0, 1000),
       MeteoData(calculationsMaxHeight, -20000, 0, 500) >>

Call(op, altitude, fieldName, value, ok, ret) ==
    [op |-> op, alt |-> altitude, field |-> fieldName, value |-> value,
     ok |-> ok, ret |-> ret]

\* After the main function: default weather, then reCreateGauges().
Init ==
    /\ maxShownAltitude = 6000
    /\ altimeterResolution = 2000
    /\ defaultGroundAbsoluteHumidity = 10000
    /\ solarStrength = 800
    /\ weatherStack = reCreateGauges(DefaultWeather, 6000, 2000).stack
    /\ thermal = IdleThermal
    /\ nUpdates = 0
    /\ nRebuilds = 0
    /\ last = Call("main", 0, "temp", 0, TRUE, 0)

\* update: setDataAt(altitude, fieldName, value).
SetDataAt(altitude, fieldName, value) ==
    /\ thermal.pc # "loop"
    /\ nUpdates < MaxUpdates
    /\ LET r == setDataAt(weatherStack, altitude, fieldName, value)
       IN  /\ weatherStack' = r.stack
           /\ last' = Call("setDataAt", altitude, fieldName, value, r.ok, 0)
    /\ nUpdates' = nUpdates + 1
    /\ thermal' = IdleThermal
    /\ UNCHANGED <<maxShownAltitude, altimeterResolution,
                   defaultGroundAbsoluteHumidity, solarStrength, nRebuilds>>

\* query: getDataAt(altitude, fieldName).
GetDataAt(altitude, fieldName) ==
    /\ thermal.pc # "loop"
    /\ LET r == getDataAt(weatherStack, altitude, fieldName)
       IN  last' = Call("getDataAt", altitude, fieldName, 0, r.ok, r.v)
    /\ thermal' = IdleThermal
    /\ UNCHANGED <<weatherStack, maxShownAltitude, altimeterResolution,
                   defaultGroundAbsoluteHumidity, solarStrength, nUpdates,
                   nRebuilds>>

\* The change handler of the .altiControl inputs.
ReCreateGauges ==
    /\ thermal.pc # "loop"
    /\ nRebuilds < MaxRebuilds
    /\ LET r == reCreateGauges(weatherStack, maxShownAltitude, altimeterResolution)
       IN  /\ weatherStack' = r.stack
           /\ last' = Call("reCreateGauges", 0, "temp", 0, r.ok, 0)
    /\ nRebuilds' = nRebuilds + 1
    /\ thermal' = IdleThermal
    /\ UNCHANGED <<maxShownAltitude, altimeterResolution,
                   defaultGroundAbsoluteHumidity, solarStrength, nUpdates>>

\* The change handler of the .guiControl inputs.
GuiControlChange(maxShown, resolution, groundHumidity, solar) ==
    /\ thermal.pc # "loop"
    /\ maxShownAltitude' = maxShown
    /\ altimeterResolution' = resolution
    /\ defaultGroundAbsoluteHumidity' = groundHumidity
    /\ solarStrength' = solar
    /\ last' = Call("guiControl", 0, "temp", 0, TRUE, 0)
    /\ thermal' = IdleThermal
    /\ UNCHANGED <<weatherStack, nUpdates, nRebuilds>>

\* redrawCanvas() calls getThermalData() on the current profile and settings.
RedrawCanvas ==
    /\ thermal.pc # "loop"
    /\ thermal' = thermalStart(weatherStack, defaultGroundAbsoluteHumidity,
                               solarStrength)
    /\ last' = Call("getThermalData", 0, "temp", 0, TRUE, 0)
    /\ UNCHANGED <<weatherStack, maxShownAltitude, altimeterResolution,
                   defaultGroundAbsoluteHumidity, solarStrength, nUpdates,
                   nRebuilds>>

\* getThermalData() goes once round its loop; nothing else runs meanwhile.
ThermalStep ==
    /\ thermal.pc = "loop"
    /\ thermal' = thermalStep(weatherStack, defaultGroundAbsoluteHumidity, thermal)
    /\ UNCHANGED <<weatherStack, maxShownAltitude, altimeterResolution,
                   defaultGroundAbsoluteHumidity, solarStrength, nUpdates,
                   nRebuilds, last>>

\* The profile and its point operations, under any gauge grid; ground
\* humidity and solar strength stay at their defaults.
NextProfile ==
    \/ \E altitude \in UpdateAltitudes, fieldName \in Fields :
          \E value \in UpdateValues(fieldName) :
             SetDataAt(altitude, fieldName, value)
    \/ \E altitude \in QueryAltitudes, fieldName \in Fields :
          GetDataAt(altitude, fieldName)
    \/ ReCreateGauges
    \/ \E maxShown \in MaxShownAltitudes, resolution \in AltimeterResolutions :
          GuiControlChange(maxShown, resolution, 10000, 800)

SpecProfile == Init /\ [][NextProfile]_vars

\* The simulation on every profile the updates and rebuilds of the default
\* gauge grid reach, under any ground humidity and solar strength.
NextThermal ==
    \/ \E altitude \in UpdateAltitudes, fieldName \in Fields :
          \E value \in UpdateValues(fieldName) :
             SetDataAt(altitude, fieldName, value)
    \/ ReCreateGauges
    \/ \E groundHumidity \in GroundHumidities, solar \in SolarStrengths :
          GuiControlChange(6000, 2000, groundHumidity, solar)
    \/ RedrawCanvas
    \/ ThermalStep

SpecThermal == Init /\ [][NextThermal]_vars

\* Updates (of the temperature gauges) and gauge rebuilds under any maximum
\* altitude and gauge step.
NextGauges ==
    \/ \E altitude \in UpdateAltitudes, value \in UpdateValues("temp") :
          SetDataAt(altitude, "temp", value)
    \/ ReCreateGauges
    \/ \E maxShown \in AnyMaxShownAltitudes, resolution \in AltimeterResolutions :
          GuiControlChange(maxShown, resolution, 10000, 800)

SpecGauges == Init /\ [][NextGauges]_vars

\* The gradient statement of the loop body (line 275) on its own, for a step
\* of any height between two temperatures.
ComputeGradient(prevTemp, currTemp, resolution) ==
    /\ thermal.pc # "loop"
    /\ last' = [op |-> "gradient", prevTemp |-> prevTemp, currTemp |-> currTemp,
                resolution |-> resolution,
                ret |-> gradientOver(prevTemp, currTemp, resolution)]
    /\ UNCHANGED <<weatherStack, maxShownAltitude, altimeterResolution,
                   defaultGroundAbsoluteHumidity, solarStrength, thermal,
                   nUpdates, nRebuilds>>

NextGradient ==
    \E prevTemp \in StepTemperatures, currTemp \in StepTemperatures,
       resolution \in StepResolutions :
          ComputeGradient(prevTemp, currTemp, resolution)

SpecGradient == Init /\ [][NextGradient]_vars

----------------------------------------------------------------------------
\* Properties.

MinAlt(stack) == CHOOSE a \in Alts(stack) : \A b \in Alts(stack) : a <= b
MaxAlt(stack) == CHOOSE a \in Alts(stack) : \A b \in Alts(stack) : b <= a
InRange(stack, altitude) ==
    Len(stack) > 0 /\ MinAlt(stack) <= altitude /\ altitude <= MaxAlt(stack)

\* A step that is a setDataAt call; a step that is a reCreateGauges call.
SetDataAtStep == nUpdates' = nUpdates + 1
ReCreateGaugesStep == nRebuilds' = nRebuilds + 1

\* C1: in every reachable state the profile is strictly increasing by
\* altitude.
C1_StrictlyIncreasing ==
    \A i, j \in 1..Len(weatherStack) :
        i < j => weatherStack[i].alt < weatherStack[j].alt

\* The value the specification gives query(altitude, fieldName) inside the
\* range: the stored value of the sample at altitude, else the interpolation
\* between the nearest sample below and the nearest sample above.
NearestBelow(stack, altitude) ==
    CHOOSE i \in 1..Len(stack) :
        /\ stack[i].alt < altitude
        /\ \A j \in 1..Len(stack) :
              stack[j].alt < altitude => stack[j].alt <= stack[i].alt
NearestAbove(stack, altitude) ==
    CHOOSE i \in 1..Len(stack) :
        /\ stack[i].alt > altitude
        /\ \A j \in 1..Len(stack) :
              stack[j].alt > altitude => stack[j].alt >= stack[i].alt
Interpolated(stack, altitude, fieldName) ==
    IF altitude \in Alts(stack)
    THEN {stack[i][fieldName] : i \in {j \in 1..Len(stack) : stack[j].alt = altitude}}
    ELSE LET lo == stack[NearestBelow(stack, altitude)]
             hi == stack[NearestAbove(stack, altitude)]
         IN  {lo[fieldName]
                + RoundDiv((altitude - lo.alt) * (hi[fieldName] - lo[fieldName]),
                           hi.alt - lo.alt)}

\* C2: a query inside the profile's range returns the stored value of the
\* sample at that altitude, else the linear interpolation between the
\* nearest sample below and the nearest sample above.
C2_QueryInterpolates ==
    (last.op = "getDataAt" /\ InRange(weatherStack, last.alt))
        => /\ last.ok
           /\ last.ret \in Interpolated(weatherStack, last.alt, last.field)

\* C3: update(x, field, v) followed at once by query(x, field), for x inside
\* the profile's range, returns v.
C3_ReadYourWrite ==
    [][ ( /\ last.op = "setDataAt"
          /\ InRange(weatherStack, last.alt)
          /\ last'.op = "getDataAt"
          /\ last'.alt = last.alt
          /\ last'.field = last.field )
        => (last'.ok /\ last'.ret = last.value) ]_vars

\* C4: an update at an altitude without a sample grows the profile by exactly
\* one sample; an update at an altitude with a sample leaves its size as it
\* was.
C4_SizeUnderUpdate ==
    [][ SetDataAtStep =>
          Len(weatherStack') =
              IF last'.alt \in Alts(weatherStack)
              THEN Len(weatherStack) ELSE Len(weatherStack) + 1 ]_vars

\* C5: a getThermalData call never fails and begins at most
\* calculationsMaxHeight / calculationResolution loop bodies.
C5_SimulateCompletes ==
    /\ thermal.pc # "failed"
    /\ thermal.steps <= calculationsMaxHeight \div calculationResolution

\* C6: every strength entry but the last has impulse >= 0 (the loop goes on
\* only past entries >= 0); when the last entry of a returned series is
\* negative thermalTop is its altitude, and when none is negative thermalTop
\* is calculationsMaxHeight.
C6_ThermalTop ==
    LET st == thermal.data.strength
        n == Len(st)
    IN  /\ \A i \in 1..(n - 1) : st[i].impulse >= 0
        /\ (thermal.pc = "loop") => \A i \in 1..n : st[i].impulse >= 0
        /\ (thermal.pc = "done" /\ n > 0 /\ st[n].impulse < 0)
              => thermal.data.thermalTop = st[n].altitude
        /\ (thermal.pc = "done" /\ \A i \in 1..n : st[i].impulse >= 0)
              => thermal.data.thermalTop = calculationsMaxHeight

\* A returned series of at least two entries whose last entry is negative.
C6_Witness ==
    /\ thermal.pc = "done"
    /\ Len(thermal.data.strength) >= 2
    /\ thermal.data.strength[Len(thermal.data.strength)].impulse < 0
    /\ thermal.data.thermalTop < calculationsMaxHeight

\* Entry i of the series is the i-th step altitude.
OnePairPerStep(st) ==
    \A i \in 1..Len(st) : st[i].altitude = i * calculationResolution

\* C7 as claimed: the returned series holds one pair per step from
\* calculationResolution up to thermalTop, the last entry's altitude being
\* thermalTop.
C7_SeriesReachesThermalTop ==
    thermal.pc = "done"
        => LET st == thermal.data.strength
           IN  /\ OnePairPerStep(st)
               /\ Len(st) > 0
               /\ st[Len(st)].altitude = thermal.data.thermalTop

\* C7 amended: the steps run from calculationResolution up to, not
\* including, calculationsMaxHeight.  The returned series holds one pair per
\* step; its last entry is at thermalTop when that entry's impulse is
\* negative, and otherwise thermalTop is calculationsMaxHeight and the last
\* entry is the last step below it.
C7_SeriesBelowCeiling ==
    thermal.pc = "done"
        => LET st == thermal.data.strength
               n == Len(st)
           IN  /\ OnePairPerStep(st)
               /\ n > 0
               /\ st[n].altitude < calculationsMaxHeight
               /\ IF st[n].impulse < 0
                  THEN st[n].altitude = thermal.data.thermalTop
                  ELSE /\ thermal.data.thermalTop = calculationsMaxHeight
                       /\ st[n].altitude + calculationResolution
                              >= calculationsMaxHeight

\* A returned series that never went negative.
C7_Witness ==
    /\ thermal.pc = "done"
    /\ thermal.data.thermalTop = calculationsMaxHeight
    /\ Len(thermal.data.strength) > 0
    /\ thermal.data.strength[Len(thermal.data.strength)].impulse >= 0

\* C8: every sample's dewPoint is the dew point of its current temperature
\* and humidity.
C8_DewPointDerived ==
    \A i \in 1..Len(weatherStack) :
        weatherStack[i].dewPoint =
            getDewPoint(weatherStack[i].temp,
                        getRelativeHumidity(weatherStack[i].humidity,
                                            weatherStack[i].temp))

\* C9 as claimed: no update and no gauge rebuild removes a sample altitude.
C9_NeverRemoved ==
    [][ Alts(weatherStack) \subseteq Alts(weatherStack') ]_vars

\* The altitudes of the gauges reCreateGauges builds.
GaugeAltitudes(maxShown, resolution) ==
    {i * resolution : i \in 0..(maxShown \div resolution)}

\* C9 amended: no update removes a sample altitude; a gauge rebuild that
\* returns keeps exactly the gauge altitudes and calculationsMaxHeight.
C9_UpdateNeverRemoves ==
    [][ /\ SetDataAtStep => Alts(weatherStack) \subseteq Alts(weatherStack')
        /\ (ReCreateGaugesStep /\ last'.ok)
              => Alts(weatherStack') =
                    GaugeAltitudes(maxShownAltitude, altimeterResolution)
                       \cup {calculationsMaxHeight} ]_vars

\* An update has added a sample to a profile that a rebuild had left.
C9_Witness ==
    /\ last.op = "setDataAt"
    /\ last.ok
    /\ nRebuilds > 0
    /\ Len(weatherStack) > Cardinality(GaugeAltitudes(maxShownAltitude,
                                                       altimeterResolution)) + 1

\* C10: a query below the lowest or above the highest sample altitude fails;
\* it returns no value.
C10_OutOfRangeFails ==
    (last.op = "getDataAt" /\ ~InRange(weatherStack, last.alt)) => ~last.ok

\* Queries above and below the range of a profile have failed.
C10_Witness ==
    /\ last.op = "getDataAt"
    /\ last.alt > MaxAlt(weatherStack)
    /\ ~last.ok
    /\ nUpdates > 0

\* C11: with defaultGroundAbsoluteHumidity = 0 a getThermalData call never
\* records a cloud base: in progress and returned, data.cloudBase is
\* calculationsMaxHeight.
C11_DryNoCloudBase ==
    (defaultGroundAbsoluteHumidity = 0 /\ thermal.pc \in {"loop", "done"})
        => thermal.data.cloudBase = Fin(calculationsMaxHeight * 100)

\* A dry call has returned after climbing past 3000 m.
C11_Witness ==
    /\ defaultGroundAbsoluteHumidity = 0
    /\ thermal.pc = "done"
    /\ thermal.steps >= 30
    /\ thermal.data.cloudBase = Fin(calculationsMaxHeight * 100)

\* The temperature rises over every step the call has taken.
IncreasingOverSteps ==
    \A i \in 1..thermal.steps :
        getTemperatureAt(weatherStack, i * calculationResolution).v
            > getTemperatureAt(weatherStack, (i - 1) * calculationResolution).v

\* C12: with solarStrength = 0 and the temperature rising with height, a
\* returned call has stopped at its first step: thermalTop is that step's
\* altitude, below calculationsMaxHeight, and the last entry of the strength
\* series is negative.
C12_StableStopsAtOnce ==
    (solarStrength = 0 /\ thermal.pc = "done" /\ IncreasingOverSteps)
        => LET st == thermal.data.strength
           IN  /\ thermal.steps = 1
               /\ thermal.data.thermalTop = calculationResolution
               /\ thermal.data.thermalTop < calculationsMaxHeight
               /\ Len(st) = 1
               /\ st[Len(st)].impulse < 0

\* A call without sun has returned on a profile warmer at the first step
\* than on the ground.
C12_Witness ==
    /\ solarStrength = 0
    /\ thermal.pc = "done"
    /\ thermal.steps >= 1
    /\ IncreasingOverSteps
    /\ thermal.data.strength[1].impulse < 0

\* A step of getThermalData that records the cloud base.
RecordsCloudBase ==
    /\ thermal.pc = "loop"
    /\ thermal'.pc \in {"loop", "done"}
    /\ NoCloudBaseYet(thermal.data.cloudBase)
    /\ ~NoCloudBaseYet(thermal'.data.cloudBase)

\* C13: the cloud base recorded at step altitude a lies within that step:
\* a - calculationResolution <= cloudBase <= a.
C13_CloudBaseWithinStep ==
    [][ RecordsCloudBase =>
          /\ thermal'.data.cloudBase.kind = "fin"
          /\ (thermal.altitude - calculationResolution) * 100
                 <= thermal'.data.cloudBase.v
          /\ thermal'.data.cloudBase.v <= thermal.altitude * 100 ]_vars

\* The altitudes getThermalData queries: 0 and every step below the ceiling.
SimulatorAltitudes ==
    {i * calculationResolution :
        i \in 0..((calculationsMaxHeight - 1) \div calculationResolution)}

\* C14: after the main function and after any updates and gauge rebuilds
\* the profile has at least two samples, one of them at altitude 0, and its
\* highest sample is at calculationsMaxHeight or above, so that every
\* altitude the simulator queries lies within the profile's range.
C14_ProfileSpansColumn ==
    /\ Len(weatherStack) >= 2
    /\ 0 \in Alts(weatherStack)
    /\ MaxAlt(weatherStack) >= calculationsMaxHeight
    /\ \A altitude \in SimulatorAltitudes : InRange(weatherStack, altitude)

\* A rebuild with the maximum altitude below one gauge step has returned:
\* the profile is the ground gauge and the sample added at the ceiling.
C14_Witness ==
    /\ last.op = "reCreateGauges"
    /\ last.ok
    /\ nUpdates > 0
    /\ maxShownAltitude < altimeterResolution
    /\ Alts(weatherStack) = {0, calculationsMaxHeight}

\* C15: for every step height the gradient of a step is its temperature
\* change per 100 m: (currTemp - prevTemp) / (resolution / 100), in 1/100000
\* (every step height of StepResolutions divides 10000).
C15_GradientPer100m ==
    last.op = "gradient"
        => last.ret = (last.currTemp - last.prevTemp) * (10000 \div last.resolution)

====
